---------------------------- MODULE Spec2Model ----------------------------
(***************************************************************************)
(* State-machine model of the documentation browser in src/src/App.jsx:    *)
(* the App component's state, its event handlers and effects, the derived  *)
(* filtered catalog and the FileTree / FolderGroup rendering.              *)
(*                                                                         *)
(* Strings that the code inspects (file names, folder names, search terms, *)
(* paths) are sequences of character codes, so that toLowerCase, includes  *)
(* and .length are computed rather than assumed.  65..90 are 'A'..'Z',     *)
(* 97..122 are 'a'..'z', 46 is '.', 47 is '/'.                             *)
(***************************************************************************)
EXTENDS Integers, Sequences, FiniteSets, TLC

VARIABLES
    rawData,            \* the imported catalog (docData.json)
    mounted,            \* FALSE until the first render and its effects ran
    selectedFile,       \* useState(null)
    viewMode,           \* useState('explanation')
    currentTheme,       \* useState('github')
    currentAccent,      \* useState('emerald')
    searchTerm,         \* useState('')
    sidebarWidth,       \* useState(280)
    isResizing,         \* useState(false)
    mobileMenuOpen,     \* useState(false)
    folderOpen,         \* isOpen of every mounted FolderGroup, by key
    listenerIsResizing, \* isResizing as captured by the attached listener
    docDataTheme,       \* documentElement's data-theme attribute
    docClassList,       \* documentElement.classList
    docStyle,           \* documentElement.style custom properties
    lastEvent           \* the event handled last (history variable)

vars == << rawData, mounted, selectedFile, viewMode, currentTheme,
           currentAccent, searchTerm, sidebarWidth, isResizing,
           mobileMenuOpen, folderOpen, listenerIsResizing, docDataTheme,
           docClassList, docStyle, lastEvent >>

-----------------------------------------------------------------------------
(* Bounds of the catalogs and search terms that are enumerated.            *)

MaxGroups == 2
MaxFiles == 2
MaxTermLen == 2

(* Program constants.                                                      *)

InitialWidth == 280
MinWidth == 200
MaxWidth == 600

-----------------------------------------------------------------------------
(* Configuration tables.                                                   *)

THEMES ==
    << [id |-> "light",     name |-> "Light",       isDark |-> FALSE],
       [id |-> "github",    name |-> "GitHub Dark", isDark |-> TRUE],
       [id |-> "vscode",    name |-> "VS Code",     isDark |-> TRUE],
       [id |-> "dracula",   name |-> "Dracula",     isDark |-> TRUE],
       [id |-> "solarized", name |-> "Solarized",   isDark |-> FALSE] >>

ACCENTS ==
    << [id |-> "blue",    name |-> "Blue",    color |-> "#2563eb", dim |-> "rgba(37, 99, 235, 0.15)"],
       [id |-> "purple",  name |-> "Purple",  color |-> "#9333ea", dim |-> "rgba(147, 51, 234, 0.15)"],
       [id |-> "emerald", name |-> "Emerald", color |-> "#059669", dim |-> "rgba(5, 150, 105, 0.15)"],
       [id |-> "orange",  name |-> "Orange",  color |-> "#ea580c", dim |-> "rgba(234, 88, 12, 0.15)"],
       [id |-> "rose",    name |-> "Rose",    color |-> "#e11d48", dim |-> "rgba(225, 29, 72, 0.15)"] >>

ThemeIds == { THEMES[i].id : i \in DOMAIN THEMES }
AccentIds == { ACCENTS[i].id : i \in DOMAIN ACCENTS }

(* Array.prototype.find by id: the first entry with that id, or undefined. *)
undefined == [id |-> "undefined"]

FindById(table, id) ==
    IF \E i \in DOMAIN table : table[i].id = id
    THEN table[CHOOSE i \in DOMAIN table :
                   /\ table[i].id = id
                   /\ \A j \in DOMAIN table : table[j].id = id => i <= j]
    ELSE undefined

-----------------------------------------------------------------------------
(* File records and catalogs.                                              *)

null == [path |-> << >>, name |-> << >>, explanation |-> "", code |-> ""]

FileRecord(folder, name) ==
    [path |-> folder \o <<47>> \o name, name |-> name,
     explanation |-> "md", code |-> "cs"]

Group(folder, names) ==
    [folder |-> folder,
     files |-> [i \in DOMAIN names |-> FileRecord(folder, names[i])]]

(* The catalog of the main specification: the root group with "a.cs", a    *)
(* group "Net" with "Ab.cs", and a group "gen" without files.              *)
SampleCatalog ==
    << Group(<<78, 101, 116>>, << <<65, 98, 46, 99, 115>> >>),
       Group(<<103, 101, 110>>, << >>),
       Group(<<46>>, << <<97, 46, 99, 115>> >>) >>

(* Search terms of the main specification: "", "B" and "z".                *)
SampleTerms == { << >>, <<66>>, <<122>> }

(* Pointer positions of the main specification, around both limits.        *)
PointerXs == { 0, MinWidth, MinWidth + 1, MaxWidth - 1, MaxWidth, 5000 }

(* Enumerated catalogs: folders ".", "x" and "lib"; file names "Ab" and    *)
(* "b"; search terms over the letters a, b, B.                             *)
Alphabet == { 97, 98, 66 }
FolderNames == { <<46>>, <<120>>, <<108, 105, 98>> }
FileNames == { <<65, 98>>, <<98>> }

SeqsUpTo(S, n) == UNION { [1..k -> S] : k \in 0..n }

Injective(s) == \A i, j \in DOMAIN s : s[i] = s[j] => i = j

Terms == SeqsUpTo(Alphabet, MaxTermLen)

NameLists == { s \in SeqsUpTo(FileNames, MaxFiles) : Injective(s) }

Catalogs ==
    { [i \in DOMAIN fs |-> Group(fs[i], ns[i])] :
        <<fs, ns>> \in
          { p \in SeqsUpTo(FolderNames, MaxGroups) \X SeqsUpTo(NameLists, MaxGroups) :
              Len(p[1]) = Len(p[2]) /\ Injective(p[1]) } }

-----------------------------------------------------------------------------
(* String primitives.                                                      *)

LowerChar(c) == IF c >= 65 /\ c <= 90 THEN c + 32 ELSE c

toLowerCase(s) == [i \in DOMAIN s |-> LowerChar(s[i])]

includes(s, sub) ==
    \E i \in 1..(Len(s) - Len(sub) + 1) : SubSeq(s, i, i + Len(sub) - 1) = sub

-----------------------------------------------------------------------------
(* Derived views: the filtered catalog and the rendered tree.              *)

FilteredOf_CaseSensitiveName(data, term) ==
    IF term = << >> THEN data
    ELSE LET lowerTerm == toLowerCase(term)
             mapped == [i \in DOMAIN data |->
                          [folder |-> data[i].folder,
                           files |-> SelectSeq(data[i].files,
                                       LAMBDA f : includes(f.name, lowerTerm))]]
         IN SelectSeq(mapped, LAMBDA group : Len(group.files) > 0)

(* useMemo(() => ..., [searchTerm]) over rawData.                          *)
FilteredOf(data, term) ==
    IF term = << >> THEN data
    ELSE LET lowerTerm == toLowerCase(term)
             mapped == [i \in DOMAIN data |->
                          [folder |-> data[i].folder,
                           files |-> SelectSeq(data[i].files,
                                       LAMBDA f : includes(toLowerCase(f.name), lowerTerm))]]
         IN SelectSeq(mapped, LAMBDA group : Len(group.files) > 0)

filteredData == FilteredOf(rawData, searchTerm)

(* [...data].sort((a, b) => a.folder.length - b.folder.length): a stable   *)
(* sort, computed by inserting each group behind the groups that do not    *)
(* compare greater.                                                        *)
RECURSIVE InsertSorted(_, _)
InsertSorted(sorted, g) ==
    IF sorted = << >> THEN <<g>>
    ELSE IF Len(Head(sorted).folder) - Len(g.folder) > 0
         THEN <<g>> \o sorted
         ELSE <<Head(sorted)>> \o InsertSorted(Tail(sorted), g)

RECURSIVE SortFrom(_, _)
SortFrom(sorted, rest) ==
    IF rest = << >> THEN sorted
    ELSE SortFrom(InsertSorted(sorted, Head(rest)), Tail(rest))

sortedFolders(data) == SortFrom(<< >>, data)

FolderGroup_AlwaysRendered(folder) == TRUE

(* FolderGroup returns null for a group without files.                     *)
FolderGroup(folder) == Len(folder.files) # 0

(* The folder groups FileTree puts on screen, in order.                    *)
FileTree(data) == SelectSeq(sortedFolders(data), FolderGroup)

(* One FolderGroup component is mounted per entry of data, keyed by folder.*)
MountedKeys(data) == { data[i].folder : i \in DOMAIN data }

(* The file rows on screen: files of rendered groups that are expanded.    *)
ClickableFiles ==
    LET tree == FileTree(filteredData)
    IN UNION { { tree[i].files[k] : k \in DOMAIN tree[i].files } :
                 i \in { j \in DOMAIN tree : folderOpen[tree[j].folder] } }

(* Helper to pick the syntax highlight style.                              *)
activeThemeObj == FindById(THEMES, currentTheme)

getSyntaxStyle_FlagOnly ==
    IF currentTheme = "dracula" THEN "dracula"
    ELSE IF activeThemeObj.isDark THEN "vscDarkPlus" ELSE "ghcolors"

getSyntaxStyle ==
    IF currentTheme = "dracula" THEN "dracula"
    ELSE IF currentTheme = "solarized" THEN "solarizedlight"
    ELSE IF activeThemeObj.isDark THEN "vscDarkPlus" ELSE "ghcolors"

-----------------------------------------------------------------------------
(* Effects.                                                                *)

ApplyTheme_NeverClearsDark(theme, accent) ==
    LET themeObj == FindById(THEMES, theme)
        accentObj == FindById(ACCENTS, accent)
    IN /\ docDataTheme' = theme
       /\ docClassList' = IF themeObj # undefined /\ themeObj.isDark
                          THEN docClassList \cup {"dark"}
                          ELSE docClassList
       /\ docStyle' = IF accentObj # undefined
                      THEN [docStyle EXCEPT !["--accent"] = accentObj.color,
                                            !["--accent-dim"] = accentObj.dim]
                      ELSE docStyle

(* useEffect(..., [currentTheme, currentAccent]): writes the document's    *)
(* data-theme, the 'dark' class and the two accent properties.             *)
ApplyTheme(theme, accent) ==
    LET themeObj == FindById(THEMES, theme)
        accentObj == FindById(ACCENTS, accent)
    IN /\ docDataTheme' = theme
       /\ docClassList' = IF themeObj # undefined /\ themeObj.isDark
                          THEN docClassList \cup {"dark"}
                          ELSE docClassList \ {"dark"}
       /\ docStyle' = IF accentObj # undefined
                      THEN [docStyle EXCEPT !["--accent"] = accentObj.color,
                                            !["--accent-dim"] = accentObj.dim]
                      ELSE docStyle

(* useEffect(..., [isResizing]): the window listeners are replaced by the  *)
(* resize / stopResizing of the render in which isResizing changed.        *)
AttachListeners(resizing) == listenerIsResizing' = resizing

Event(op, arg) == [op |-> op, arg |-> arg]

-----------------------------------------------------------------------------
(* Initial state: the catalog is loaded, nothing is rendered yet.  The     *)
(* document's class list before the first effect is not set by this code.  *)

InitWith(catalogs) ==
    /\ rawData \in catalogs
    /\ mounted = FALSE
    /\ selectedFile = null
    /\ viewMode = "explanation"
    /\ currentTheme = "github"
    /\ currentAccent = "emerald"
    /\ searchTerm = << >>
    /\ sidebarWidth = InitialWidth
    /\ isResizing = FALSE
    /\ mobileMenuOpen = FALSE
    /\ folderOpen = << >>
    /\ listenerIsResizing = FALSE
    /\ docDataTheme = "unset"
    /\ docClassList \in { {}, {"dark"} }
    /\ docStyle = [p \in {"--accent", "--accent-dim"} |-> "unset"]
    /\ lastEvent = Event("load", 0)

Init == InitWith({SampleCatalog})

InitCatalog == InitWith(Catalogs)

-----------------------------------------------------------------------------
(* First render: every FolderGroup mounts expanded, both effects run.      *)
Mount ==
    /\ ~mounted
    /\ mounted' = TRUE
    /\ folderOpen' = [k \in MountedKeys(filteredData) |-> TRUE]
    /\ ApplyTheme(currentTheme, currentAccent)
    /\ AttachListeners(isResizing)
    /\ lastEvent' = Event("mount", 0)
    /\ UNCHANGED << rawData, selectedFile, viewMode, currentTheme, currentAccent,
                    searchTerm, sidebarWidth, isResizing, mobileMenuOpen >>

Selection(file) == [file |-> file, wasFile |-> selectedFile, wasMode |-> viewMode]

onSelect_KeepsMode(file) ==
    /\ mounted
    /\ file \in ClickableFiles
    /\ selectedFile' = file
    /\ viewMode' = (IF file = selectedFile THEN viewMode ELSE "explanation")
    /\ mobileMenuOpen' = FALSE
    /\ lastEvent' = Event("select", Selection(file))
    /\ UNCHANGED << rawData, mounted, currentTheme, currentAccent, searchTerm,
                    sidebarWidth, isResizing, folderOpen, listenerIsResizing,
                    docDataTheme, docClassList, docStyle >>

(* FileTree's onSelect, reached from the onClick of a file row.            *)
onSelect(file) ==
    /\ mounted
    /\ file \in ClickableFiles
    /\ selectedFile' = file
    /\ viewMode' = "explanation"
    /\ mobileMenuOpen' = FALSE
    /\ lastEvent' = Event("select", Selection(file))
    /\ UNCHANGED << rawData, mounted, currentTheme, currentAccent, searchTerm,
                    sidebarWidth, isResizing, folderOpen, listenerIsResizing,
                    docDataTheme, docClassList, docStyle >>

TabClick_ClearsSelection(mode) ==
    /\ mounted
    /\ selectedFile # null
    /\ viewMode' = mode
    /\ selectedFile' = (IF mode = viewMode THEN selectedFile ELSE null)
    /\ lastEvent' = Event("tab", mode)
    /\ UNCHANGED << rawData, mounted, currentTheme, currentAccent,
                    searchTerm, sidebarWidth, isResizing, mobileMenuOpen,
                    folderOpen, listenerIsResizing, docDataTheme, docClassList,
                    docStyle >>

(* The Explanation and Code tab buttons, rendered while a file is selected.*)
TabClick(mode) ==
    /\ mounted
    /\ selectedFile # null
    /\ viewMode' = mode
    /\ lastEvent' = Event("tab", mode)
    /\ UNCHANGED << rawData, mounted, selectedFile, currentTheme, currentAccent,
                    searchTerm, sidebarWidth, isResizing, mobileMenuOpen,
                    folderOpen, listenerIsResizing, docDataTheme, docClassList,
                    docStyle >>

SetSearchTerm_ResetsMode(term) ==
    /\ mounted
    /\ searchTerm' = term
    /\ viewMode' = "explanation"
    /\ folderOpen' = [k \in MountedKeys(FilteredOf(rawData, term)) |->
                        IF k \in DOMAIN folderOpen THEN folderOpen[k] ELSE TRUE]
    /\ lastEvent' = Event("search", term)
    /\ UNCHANGED << rawData, mounted, selectedFile, currentTheme,
                    currentAccent, sidebarWidth, isResizing, mobileMenuOpen,
                    listenerIsResizing, docDataTheme, docClassList, docStyle >>

SetSearchTerm_DropsHiddenSelection(term) ==
    /\ mounted
    /\ searchTerm' = term
    /\ selectedFile' = (IF FilteredOf(rawData, term) = << >> THEN null ELSE selectedFile)
    /\ folderOpen' = [k \in MountedKeys(FilteredOf(rawData, term)) |->
                        IF k \in DOMAIN folderOpen THEN folderOpen[k] ELSE TRUE]
    /\ lastEvent' = Event("search", term)
    /\ UNCHANGED << rawData, mounted, viewMode, currentTheme,
                    currentAccent, sidebarWidth, isResizing, mobileMenuOpen,
                    listenerIsResizing, docDataTheme, docClassList, docStyle >>

(* The search input's onChange.  FolderGroups that leave the filtered      *)
(* catalog unmount; those that enter it mount expanded.                    *)
SetSearchTerm(term) ==
    /\ mounted
    /\ searchTerm' = term
    /\ folderOpen' = [k \in MountedKeys(FilteredOf(rawData, term)) |->
                        IF k \in DOMAIN folderOpen THEN folderOpen[k] ELSE TRUE]
    /\ lastEvent' = Event("search", term)
    /\ UNCHANGED << rawData, mounted, selectedFile, viewMode, currentTheme,
                    currentAccent, sidebarWidth, isResizing, mobileMenuOpen,
                    listenerIsResizing, docDataTheme, docClassList, docStyle >>

(* A theme menu button: setCurrentTheme, then the effect if the id changed.*)
PickTheme(id) ==
    /\ mounted
    /\ currentTheme' = id
    /\ IF id # currentTheme
       THEN ApplyTheme(id, currentAccent)
       ELSE UNCHANGED << docDataTheme, docClassList, docStyle >>
    /\ lastEvent' = Event("theme", id)
    /\ UNCHANGED << rawData, mounted, selectedFile, viewMode, currentAccent,
                    searchTerm, sidebarWidth, isResizing, mobileMenuOpen,
                    folderOpen, listenerIsResizing >>

(* An accent menu button: setCurrentAccent, then the effect if it changed. *)
PickAccent(id) ==
    /\ mounted
    /\ currentAccent' = id
    /\ IF id # currentAccent
       THEN ApplyTheme(currentTheme, id)
       ELSE UNCHANGED << docDataTheme, docClassList, docStyle >>
    /\ lastEvent' = Event("accent", id)
    /\ UNCHANGED << rawData, mounted, selectedFile, viewMode, currentTheme,
                    searchTerm, sidebarWidth, isResizing, mobileMenuOpen,
                    folderOpen, listenerIsResizing >>

(* onMouseDown of the drag handle.                                         *)
startResizing ==
    /\ mounted
    /\ isResizing' = TRUE
    /\ AttachListeners(TRUE)
    /\ lastEvent' = Event("mousedown", 0)
    /\ UNCHANGED << rawData, mounted, selectedFile, viewMode, currentTheme,
                    currentAccent, searchTerm, sidebarWidth, mobileMenuOpen,
                    folderOpen, docDataTheme, docClassList, docStyle >>

resize_Unchecked(clientX) ==
    IF listenerIsResizing THEN clientX ELSE sidebarWidth

resize_Inclusive(clientX) ==
    IF listenerIsResizing
    THEN LET newWidth == clientX
         IN IF newWidth >= MinWidth /\ newWidth <= MaxWidth
            THEN newWidth
            ELSE sidebarWidth
    ELSE sidebarWidth

(* The width the mousemove listener leaves behind for e.clientX = clientX. *)
resize(clientX) ==
    IF listenerIsResizing
    THEN LET newWidth == clientX
         IN IF newWidth > MinWidth /\ newWidth < MaxWidth
            THEN newWidth
            ELSE sidebarWidth
    ELSE sidebarWidth

(* mousemove on the window.                                                *)
MouseMove(clientX) ==
    /\ mounted
    /\ sidebarWidth' = resize(clientX)
    /\ lastEvent' = Event("mousemove", clientX)
    /\ UNCHANGED << rawData, mounted, selectedFile, viewMode, currentTheme,
                    currentAccent, searchTerm, isResizing, mobileMenuOpen,
                    folderOpen, listenerIsResizing, docDataTheme, docClassList,
                    docStyle >>

(* mouseup on the window.                                                  *)
stopResizing ==
    /\ mounted
    /\ isResizing' = FALSE
    /\ AttachListeners(FALSE)
    /\ lastEvent' = Event("mouseup", 0)
    /\ UNCHANGED << rawData, mounted, selectedFile, viewMode, currentTheme,
                    currentAccent, searchTerm, sidebarWidth, mobileMenuOpen,
                    folderOpen, docDataTheme, docClassList, docStyle >>

(* The header's menu button.                                               *)
ToggleMobileMenu ==
    /\ mounted
    /\ mobileMenuOpen' = ~mobileMenuOpen
    /\ lastEvent' = Event("menu", 0)
    /\ UNCHANGED << rawData, mounted, selectedFile, viewMode, currentTheme,
                    currentAccent, searchTerm, sidebarWidth, isResizing,
                    folderOpen, listenerIsResizing, docDataTheme, docClassList,
                    docStyle >>

(* The sidebar's X button, and the scrim shown while the menu is open.     *)
CloseMobileMenu ==
    /\ mounted
    /\ mobileMenuOpen' = FALSE
    /\ lastEvent' = Event("close", 0)
    /\ UNCHANGED << rawData, mounted, selectedFile, viewMode, currentTheme,
                    currentAccent, searchTerm, sidebarWidth, isResizing,
                    folderOpen, listenerIsResizing, docDataTheme, docClassList,
                    docStyle >>

(* The header row of a rendered folder group.                              *)
ToggleFolder(key) ==
    /\ mounted
    /\ \E i \in DOMAIN FileTree(filteredData) : FileTree(filteredData)[i].folder = key
    /\ folderOpen' = [folderOpen EXCEPT ![key] = ~folderOpen[key]]
    /\ lastEvent' = Event("folder", key)
    /\ UNCHANGED << rawData, mounted, selectedFile, viewMode, currentTheme,
                    currentAccent, searchTerm, sidebarWidth, isResizing,
                    mobileMenuOpen, listenerIsResizing, docDataTheme,
                    docClassList, docStyle >>

AllFiles == UNION { { rawData[i].files[k] : k \in DOMAIN rawData[i].files } :
                      i \in DOMAIN rawData }

Next ==
    \/ Mount
    \/ \E file \in AllFiles : onSelect(file)
    \/ \E mode \in {"explanation", "code"} : TabClick(mode)
    \/ \E term \in SampleTerms : SetSearchTerm(term)
    \/ \E id \in ThemeIds : PickTheme(id)
    \/ \E id \in AccentIds : PickAccent(id)
    \/ startResizing
    \/ \E clientX \in PointerXs : MouseMove(clientX)
    \/ stopResizing
    \/ ToggleMobileMenu
    \/ CloseMobileMenu
    \/ \E key \in MountedKeys(rawData) : ToggleFolder(key)

Spec == Init /\ [][Next]_vars

(* The tree over every bounded catalog and search term.                    *)
NextCatalog ==
    \/ Mount
    \/ \E term \in Terms : SetSearchTerm(term)

SpecCatalog == InitCatalog /\ [][NextCatalog]_vars

-----------------------------------------------------------------------------
(* Properties.                                                             *)

Min(a, b) == IF a < b THEN a ELSE b
Max(a, b) == IF a > b THEN a ELSE b

(* C1: after the file-selection callback for file f, viewMode is           *)
(* 'explanation' and selectedFile is f, whatever the mode and the selected *)
(* file were before.                                                        *)
C1_SelectShowsExplanation ==
    lastEvent.op = "select" =>
        /\ viewMode = "explanation"
        /\ selectedFile = lastEvent.arg.file

(* A file that was already selected and shown in code mode is selected.    *)
C1_Witness ==
    /\ lastEvent.op = "select"
    /\ lastEvent.arg.wasMode = "code"
    /\ lastEvent.arg.wasFile = lastEvent.arg.file
    /\ selectedFile = lastEvent.arg.file

(* C3: sidebarWidth is within [200, 600] after any sequence of press, move *)
(* and release events, whatever the pointer positions.                     *)
C3_WidthWithinBounds ==
    sidebarWidth >= MinWidth /\ sidebarWidth <= MaxWidth

(* The pointer is far beyond the upper limit while the drag is active.     *)
C3_Witness ==
    /\ lastEvent.op = "mousemove"
    /\ listenerIsResizing
    /\ lastEvent.arg > MaxWidth
    /\ sidebarWidth # InitialWidth

(* C4: getSyntaxStyle is the dracula table for 'dracula', the solarized    *)
(* table for 'solarized', and for any other theme the dark default if the  *)
(* theme's isDark flag is set, the light default otherwise; it is a        *)
(* function of the current theme alone.                                    *)
C4_SyntaxStyleByTheme ==
    \E i \in DOMAIN THEMES :
        /\ THEMES[i].id = currentTheme
        /\ (currentTheme = "dracula" => getSyntaxStyle = "dracula")
        /\ (currentTheme = "solarized" => getSyntaxStyle = "solarizedlight")
        /\ (currentTheme \notin {"dracula", "solarized"} /\ THEMES[i].isDark
                => getSyntaxStyle = "vscDarkPlus")
        /\ (currentTheme \notin {"dracula", "solarized"} /\ ~THEMES[i].isDark
                => getSyntaxStyle = "ghcolors")

(* Solarized was picked while code of a selected file is on screen.        *)
C4_Witness ==
    /\ lastEvent.op = "theme"
    /\ currentTheme = "solarized"
    /\ selectedFile # null
    /\ viewMode = "code"
    /\ getSyntaxStyle = "solarizedlight"

(* C6: a click on the Explanation or the Code tab sets viewMode to the     *)
(* clicked mode and leaves selectedFile, searchTerm, the theme, the accent *)
(* and the sidebar width unchanged.                                        *)
C6_TabClickFrame ==
    [][lastEvent'.op = "tab" =>
          /\ viewMode' = lastEvent'.arg
          /\ UNCHANGED << selectedFile, searchTerm, currentTheme,
                          currentAccent, sidebarWidth >>]_vars

(* The Code tab was clicked for a selected file.                           *)
C6_Witness ==
    /\ lastEvent.op = "tab"
    /\ lastEvent.arg = "code"
    /\ viewMode = "code"
    /\ selectedFile # null

(* C7: viewMode changes only by a file selection (to 'explanation') or by  *)
(* a tab click (to the clicked mode); every other action leaves it alone.  *)
C7_ViewModeTransitions ==
    [][viewMode' # viewMode =>
          \/ lastEvent'.op = "select" /\ viewMode' = "explanation"
          \/ lastEvent'.op = "tab" /\ viewMode' = lastEvent'.arg]_vars

(* A search was typed while code mode was active, and code mode remains.   *)
C7_Witness ==
    /\ lastEvent.op = "search"
    /\ viewMode = "code"

(* C8: once the theme effect has run, the document state is a function of  *)
(* the current selection: 'dark' is set iff the current theme is dark,     *)
(* data-theme is the theme id, --accent and --accent-dim are the current   *)
(* accent's color and dim; re-picking the active theme or accent changes   *)
(* none of them.                                                           *)
C8_DocumentFollowsSelection ==
    /\ [](mounted =>
            /\ docDataTheme = currentTheme
            /\ \E i \in DOMAIN THEMES :
                  /\ THEMES[i].id = currentTheme
                  /\ ("dark" \in docClassList) = THEMES[i].isDark
            /\ \E i \in DOMAIN ACCENTS :
                  /\ ACCENTS[i].id = currentAccent
                  /\ docStyle["--accent"] = ACCENTS[i].color
                  /\ docStyle["--accent-dim"] = ACCENTS[i].dim)
    /\ [][(lastEvent'.op \in {"theme", "accent"}
             /\ currentTheme' = currentTheme /\ currentAccent' = currentAccent)
           => UNCHANGED << docDataTheme, docClassList, docStyle >>]_vars

(* A light theme was picked after the dark start theme had been applied.   *)
C8_Witness ==
    /\ mounted
    /\ lastEvent.op = "theme"
    /\ currentTheme = "light"
    /\ currentAccent = "rose"
    /\ "dark" \notin docClassList

(* C9 as stated: while isResizing, a pointer move to x leaves sidebarWidth *)
(* at min(600, max(200, x)).                                               *)
C9_MoveClamps ==
    (lastEvent.op = "mousemove" /\ isResizing) =>
        sidebarWidth = Min(MaxWidth, Max(MinWidth, lastEvent.arg))

(* C9 as amended: while isResizing, a pointer move to x sets sidebarWidth  *)
(* to x if 200 < x < 600 and leaves sidebarWidth unchanged otherwise.      *)
C9_MoveSetsInsideOnly ==
    [][(lastEvent'.op = "mousemove" /\ isResizing) =>
          sidebarWidth' = IF lastEvent'.arg > MinWidth /\ lastEvent'.arg < MaxWidth
                          THEN lastEvent'.arg
                          ELSE sidebarWidth]_vars

(* A move to exactly 200 during a drag left the width of an earlier move.  *)
C9_Witness ==
    /\ lastEvent.op = "mousemove"
    /\ isResizing
    /\ lastEvent.arg = MinWidth
    /\ sidebarWidth = MaxWidth - 1

(* C10: viewMode = 'code' implies a file is selected, and a selected file  *)
(* is never reset to none, also not by a search that hides it.             *)
C10_CodeModeHasFile ==
    /\ [](viewMode = "code" => selectedFile # null)
    /\ [][selectedFile # null => selectedFile' # null]_vars

(* Code of a selected file is shown while the search hides every file.     *)
C10_Witness ==
    /\ lastEvent.op = "search"
    /\ filteredData = << >>
    /\ selectedFile # null
    /\ viewMode = "code"

-----------------------------------------------------------------------------
(* Properties of the filtered catalog and the rendered tree.               *)

SameLetter(c, d) ==
    \/ c = d
    \/ c \in 65..90 /\ d = c + 32
    \/ d \in 65..90 /\ c = d + 32

(* name contains term, ignoring case.                                      *)
ContainsIgnoringCase(name, term) ==
    \E off \in 0..(Len(name) - Len(term)) :
        \A k \in 1..Len(term) : SameLetter(name[off + k], term[k])

(* The files of a catalog with their folders, in catalog order.            *)
RECURSIVE Flatten(_)
Flatten(data) ==
    IF data = << >> THEN << >>
    ELSE [k \in DOMAIN Head(data).files |-> <<Head(data).folder, Head(data).files[k]>>]
         \o Flatten(Tail(data))

Range(s) == { s[i] : i \in DOMAIN s }

(* C2: the filtered catalog holds exactly the files whose name contains    *)
(* the search term case-insensitively, each in its folder group and in the *)
(* original order, and FileTree shows the groups by ascending folder-name  *)
(* length.                                                                 *)
C2_FilterAndOrder ==
    LET tree == FileTree(filteredData)
    IN /\ Flatten(filteredData) =
            SelectSeq(Flatten(rawData),
                      LAMBDA p : ContainsIgnoringCase(p[2].name, searchTerm))
       /\ \A i, j \in DOMAIN tree :
            i < j => Len(tree[i].folder) <= Len(tree[j].folder)
       /\ \A i \in DOMAIN tree : \E j \in DOMAIN filteredData : tree[i] = filteredData[j]
       /\ Range(Flatten(tree)) = Range(Flatten(filteredData))
       /\ Len(Flatten(tree)) = Len(Flatten(filteredData))

(* The term "aB" keeps "Ab" in two groups, which the tree shows in the     *)
(* other order, and drops a file "b".                                      *)
C2_Witness ==
    /\ mounted
    /\ lastEvent.op = "search"
    /\ searchTerm = <<97, 66>>
    /\ Len(FileTree(filteredData)) = 2
    /\ Len(FileTree(filteredData)[1].folder) < Len(FileTree(filteredData)[2].folder)
    /\ filteredData[1] = FileTree(filteredData)[2]
    /\ Len(Flatten(filteredData)) < Len(Flatten(rawData))

(* C5: no folder group without files is in the rendered tree, for the      *)
(* empty and for every other search term, and the source catalog is never  *)
(* changed.                                                                *)
C5_NoEmptyGroupRendered ==
    /\ [](\A i \in DOMAIN FileTree(filteredData) :
              Len(FileTree(filteredData)[i].files) > 0)
    /\ [][rawData' = rawData]_vars

(* The search term was cleared and the catalog's group without files is   *)
(* passed to FileTree, which renders only the other group.                 *)
C5_Witness ==
    /\ mounted
    /\ lastEvent.op = "search"
    /\ searchTerm = << >>
    /\ \E i \in DOMAIN filteredData : filteredData[i].files = << >>
    /\ Len(FileTree(filteredData)) = 1
    /\ Len(filteredData) = 2

=============================================================================
